---- MODULE Spec2Model ----
(***************************************************************************)
(* Model of src/Ai.py: class MicroFinanceAI, the loan-application pipeline *)
(*   process_loan_application -> verify_kyc -> calculate_credit_score ->   *)
(*   calculate_esg_score -> analyze_social_media -> make_loan_decision.    *)
(*                                                                         *)
(* Numbers.  Python floats are modelled as exact fixed-point integers in   *)
(* units of 1/Unit (Unit = 3000, so 0.1 = 300 and thirds are exact); every *)
(* division the model performs is exact on the value sets it draws from.   *)
(* A float slot of a dict is a tagged value: a number, NaN, a non-number   *)
(* (None) or a missing key.                                                *)
(*                                                                         *)
(* Helpers.  The class defines none of _verify_id_document,                *)
(* _verify_address_document, _verify_income_document,                      *)
(* _evaluate_traditional_factors, _analyze_bank_statements,                *)
(* _evaluate_business_performance, _assess_environmental_impact,           *)
(* _assess_social_impact, _assess_governance.  As the class stands each    *)
(* call raises AttributeError; a subclass may supply them.  The outcome of *)
(* a helper call is therefore a choice between RAISE (the behaviour of the *)
(* class as written) and a returned value.                                 *)
(***************************************************************************)
EXTENDS Integers, Sequences, FiniteSets, TLC

VARIABLES
    pc,            \* position of the current call
    entry,         \* public method the caller invoked
    application,   \* application_data of process_loan_application
    kyc_input,     \* documents argument of verify_kyc
    social_input,  \* social_data argument of analyze_social_media
    kyc_status,    \* verification dict returned by verify_kyc
    credit_score,  \* dict returned by calculate_credit_score
    esg_score,     \* dict returned by calculate_esg_score
    social_score,  \* dict returned by analyze_social_media
    result,        \* what the entry method returned
    performed,     \* methods of the class invoked during the current call
    escaped        \* TRUE when an exception left the entry method

vars == <<pc, entry, application, kyc_input, social_input, kyc_status,
          credit_score, esg_score, social_score, result, performed, escaped>>

----------------------------------------------------------------------------
(* Bounds and units *)

\* longest social_data['posts'] sequence explored
MaxPosts == 2

\* fixed-point unit: the float 1.0
Unit == 3 * 1000

Tenth == Unit \div 10

----------------------------------------------------------------------------
(* Tagged float slots *)

Num(n) == [t |-> "num", n |-> n]
NaN == [t |-> "nan", n |-> 0]
NoneVal == [t |-> "none", n |-> 0]
Missing == [t |-> "missing", n |-> 0]

IsNum(v) == v.t = "num"
\* usable in float arithmetic without raising (a number or NaN)
IsFloat(v) == v.t \in {"num", "nan"}

----------------------------------------------------------------------------
(* verify_kyc *)

required_docs == <<"id_proof", "address_proof", "income_proof">>

DocTypes == {required_docs[i] : i \in 1..Len(required_docs)}

\* key under which verify_kyc records the detail of a document type
DetailKey(doc) ==
    CASE doc = "id_proof" -> "id"
      [] doc = "address_proof" -> "address"
      [] doc = "income_proof" -> "income"

\* what a call of a _verify_*_document helper can do
CheckOutcomes == {"RAISE", "valid"}

\* a kyc_documents value: a mapping (its key set) or a non-mapping (None)
DocumentValues ==
    {[t |-> "mapping", keys |-> k] : k \in SUBSET DocTypes}
        \cup {[t |-> "none", keys |-> {}]}

\* `doc not in documents`: raises TypeError on a non-mapping
ContainsRaises(documents) == documents.t # "mapping"

\* the for loop of verify_kyc from index i on; chk[doc] is the outcome of the
\* type-specific helper.  raised = the loop was left by an exception.
RECURSIVE KycLoop(_, _, _, _, _)
KycLoop(documents, chk, i, errors, details) ==
    IF i > Len(required_docs)
    THEN [raised |-> FALSE, errors |-> errors, details |-> details]
    ELSE LET doc == required_docs[i] IN
         IF ContainsRaises(documents)
         THEN [raised |-> TRUE, errors |-> errors, details |-> details]
         ELSE IF doc \notin documents.keys
         THEN KycLoop(documents, chk, i + 1,
                      Append(errors, "Missing " \o doc), details)
         ELSE IF chk[doc] = "RAISE"
         THEN [raised |-> TRUE, errors |-> errors, details |-> details]
         ELSE KycLoop(documents, chk, i + 1, errors,
                      details \cup {DetailKey(doc)})

\* an except branch that swallows the exception
KycExceptSilent(errors) == errors

\* the except branch of verify_kyc
KycExcept(errors) == Append(errors, "Verification error")

\* the final assignment of 'verified' on the normal path
KycVerified(errors) == Len(errors) = 0

verify_kyc(documents, chk) ==
    LET loop == KycLoop(documents, chk, 1, <<>>, {}) IN
    IF loop.raised
    THEN [verified |-> FALSE,
          errors |-> KycExcept(loop.errors),
          details |-> loop.details]
    ELSE [verified |-> KycVerified(loop.errors),
          errors |-> loop.errors,
          details |-> loop.details]

----------------------------------------------------------------------------
(* Helper calls of the scorers *)

\* values the credit helpers may return (0.3, 1.0)
CreditHelperScores == {3 * Tenth, Unit}

\* values the ESG helpers may return (0.3, 0.6, 1.0)
EsgHelperScores == {3 * Tenth, 6 * Tenth, Unit}

Raise == [raise |-> TRUE, score |-> 0]
Returns(n) == [raise |-> FALSE, score |-> n]

\* what a call of an _evaluate_* / _analyze_* / _assess_* helper can do
HelperOutcomes(scores) == {Raise} \cup {Returns(n) : n \in scores}

\* outcomes of the three helper calls a scorer makes, in call order; a helper
\* after a raising one is never called, so its outcome is fixed to Raise
HelperRuns(scores) ==
    {h \in [1..3 -> HelperOutcomes(scores)] :
        \A i \in 1..2 : h[i].raise => h[i + 1].raise}

CreditRuns == HelperRuns(CreditHelperScores)

EsgRuns == HelperRuns(EsgHelperScores)

----------------------------------------------------------------------------
(* calculate_credit_score *)

\* weights = {'traditional': 0.4, 'bank': 0.3, 'business': 0.3}, in tenths
TraditionalWeight == 4
BankWeight == 3
BusinessWeight == 3

\* final_score of calculate_credit_score
CreditFinalScore(traditional_score, bank_score, business_score) ==
    (traditional_score * TraditionalWeight
        + bank_score * BankWeight
        + business_score * BusinessWeight) \div 10

\* the except branch: {'score': 0, 'error': str(e)}
CreditExcept(exc) ==
    [score |-> Num(0), components |-> <<>>, error |-> exc]

\* h[1], h[2], h[3]: _evaluate_traditional_factors, _analyze_bank_statements,
\* _evaluate_business_performance
calculate_credit_score(data, h) ==
    IF h[1].raise \/ h[2].raise \/ h[3].raise
    THEN CreditExcept("AttributeError")
    ELSE [score |-> Num(CreditFinalScore(h[1].score, h[2].score, h[3].score)),
          components |-> <<h[1].score, h[2].score, h[3].score>>,
          error |-> "none"]

----------------------------------------------------------------------------
(* calculate_esg_score *)

\* sub-scores below 0.6 get a recommendation, in tenths
EsgAdvisoryBelow == 6

List(items) == [t |-> "list", items |-> items]
NoList == [t |-> "none", items |-> <<>>]
MissingList == [t |-> "missing", items |-> <<>>]

NeedsAdvice(sub_score) == sub_score < EsgAdvisoryBelow * Tenth

\* the three `if ... < 0.6: recommendations.append(...)` statements
EsgRecommendations(environmental, social, governance) ==
    (IF NeedsAdvice(environmental)
        THEN <<"Improve environmental practices">> ELSE <<>>)
    \o (IF NeedsAdvice(social)
        THEN <<"Enhance social responsibility">> ELSE <<>>)
    \o (IF NeedsAdvice(governance)
        THEN <<"Strengthen governance structures">> ELSE <<>>)

EsgTotal(environmental, social, governance) ==
    (environmental + social + governance) \div 3

\* the dict as it stands when helper number `failed` raised: the sub-scores
\* assigned before it keep their values, the rest keep the initial 0
EsgExcept(h, failed, exc) ==
    [environmental |-> IF failed > 1 THEN h[1].score ELSE 0,
     social |-> IF failed > 2 THEN h[2].score ELSE 0,
     governance |-> 0,
     total |-> Num(0),
     recommendations |-> List(<<>>),
     error |-> exc]

\* h[1], h[2], h[3]: _assess_environmental_impact, _assess_social_impact,
\* _assess_governance
calculate_esg_score(business_data, h) ==
    IF h[1].raise THEN EsgExcept(h, 1, "AttributeError")
    ELSE IF h[2].raise THEN EsgExcept(h, 2, "AttributeError")
    ELSE IF h[3].raise THEN EsgExcept(h, 3, "AttributeError")
    ELSE [environmental |-> h[1].score,
          social |-> h[2].score,
          governance |-> h[3].score,
          total |-> Num(EsgTotal(h[1].score, h[2].score, h[3].score)),
          recommendations |->
              List(EsgRecommendations(h[1].score, h[2].score, h[3].score)),
          error |-> "none"]

----------------------------------------------------------------------------
(* analyze_social_media *)

\* a post: a text with the polarity TextBlob gives it and whether it contains
\* a business keyword, or a non-text for which TextBlob(post) raises TypeError
PostKinds ==
    {[text |-> TRUE, polarity |-> Unit, keyword |-> TRUE],
     [text |-> TRUE, polarity |-> 0 - Unit, keyword |-> FALSE],
     [text |-> TRUE, polarity |-> 0, keyword |-> FALSE],
     [text |-> FALSE, polarity |-> 0, keyword |-> FALSE]}

PostSeqs == UNION {[1..n -> PostKinds] : n \in 0..MaxPosts}

\* a social_data value: a mapping with or without 'posts' (a list, or None),
\* or a non-mapping (None)
SocialDataValues ==
    {[t |-> "mapping", posts |-> List(ps)] : ps \in PostSeqs}
        \cup {[t |-> "mapping", posts |-> MissingList],
              [t |-> "mapping", posts |-> NoList],
              [t |-> "none", posts |-> MissingList]}

\* flag thresholds, in tenths
NegativeSentimentBelow == -2
LowActivityBelow == 3
PositivePresenceAbove == 6
HighEngagementAbove == 7

RECURSIVE SumPolarity(_)
SumPolarity(posts) ==
    IF posts = <<>> THEN 0
    ELSE posts[1].polarity + SumPolarity(Tail(posts))

\* np.mean(sentiments): nan for an empty list (numpy warns, does not raise)
Mean(posts) ==
    IF Len(posts) = 0 THEN NaN
    ELSE Num(SumPolarity(posts) \div Len(posts))

\* business_mentions
BusinessMentions(posts) ==
    Cardinality({i \in 1..Len(posts) : posts[i].keyword})

\* business_mentions / len(social_data['posts']); raises on an empty list
DivideRaises(posts) == Len(posts) = 0

BusinessActivity(posts) == (BusinessMentions(posts) * Unit) \div Len(posts)

RiskFactors(sentiment, activity) ==
    (IF sentiment < NegativeSentimentBelow * Tenth
        THEN <<"Negative social media sentiment">> ELSE <<>>)
    \o (IF activity < LowActivityBelow * Tenth
        THEN <<"Low business activity">> ELSE <<>>)

Opportunities(sentiment, activity) ==
    (IF sentiment > PositivePresenceAbove * Tenth
        THEN <<"Strong positive online presence">> ELSE <<>>)
    \o (IF activity > HighEngagementAbove * Tenth
        THEN <<"High business engagement">> ELSE <<>>)

\* the initial `analysis` dict
SocialDefault ==
    [sentiment_score |-> Num(0), business_activity |-> 0,
     risk_factors |-> <<>>, opportunities |-> <<>>, error |-> "none"]

analyze_social_media(social_data) ==
    IF social_data.t # "mapping"
    THEN \* `'posts' in social_data` raises
         [SocialDefault EXCEPT !.error = "TypeError"]
    ELSE IF social_data.posts.t = "missing"
    THEN SocialDefault
    ELSE IF social_data.posts.t = "none"
    THEN \* `for post in None` raises
         [SocialDefault EXCEPT !.error = "TypeError"]
    ELSE LET posts == social_data.posts.items IN
         IF \E i \in 1..Len(posts) : ~posts[i].text
         THEN \* TextBlob(post) raises inside the loop
              [SocialDefault EXCEPT !.error = "TypeError"]
         ELSE IF DivideRaises(posts)
         THEN \* sentiment_score is already assigned
              [SocialDefault EXCEPT !.sentiment_score = Mean(posts),
                                    !.error = "ZeroDivisionError"]
         ELSE LET sentiment == Mean(posts).n
                  activity == BusinessActivity(posts)
              IN [sentiment_score |-> Num(sentiment),
                  business_activity |-> activity,
                  risk_factors |-> RiskFactors(sentiment, activity),
                  opportunities |-> Opportunities(sentiment, activity),
                  error |-> "none"]

----------------------------------------------------------------------------
(* make_loan_decision *)

\* weights of the final score, in tenths
CreditWeight == 5
EsgWeight == 3
SentimentWeight == 2

\* lower bounds of the approved bands, in tenths
Tier1Min == 7
Tier2Min == 5
Tier3Min == 3

Tier1Amount == 500000
Tier1Rate == 12
Tier1Term == 24
Tier2Amount == 300000
Tier2Rate == 15
Tier2Term == 18
Tier3Amount == 100000
Tier3Rate == 18
Tier3Term == 12

DecisionKeys ==
    {"status", "loan_amount", "interest_rate", "term_months",
     "requirements", "recommendations"}

\* a returned dict: `keys` are the keys it holds, a field outside `keys` keeps
\* its filler value
NoResult ==
    [keys |-> {}, status |-> "none", loan_amount |-> 0, interest_rate |-> 0,
     term_months |-> 0, requirements |-> <<>>, recommendations |-> <<>>,
     reason |-> "none", error |-> "none", details |-> <<>>,
     message |-> "none"]

\* the initial `decision` dict
PendingDecision ==
    [NoResult EXCEPT !.keys = DecisionKeys, !.status = "pending"]

\* the social term taken from business_activity instead of sentiment_score
FinalScoreFromActivity(credit, esg, social) ==
    IF IsNum(credit.score) /\ IsNum(esg.total) /\ IsNum(social.sentiment_score)
    THEN Num((credit.score.n * 5 + esg.total.n * 3
                + social.business_activity * 2) \div 10)
    ELSE NaN

\* credit_score['score'] * 0.5 + esg_score['total'] * 0.3
\*   + social_score['sentiment_score'] * 0.2, on floats (NaN propagates)
final_score(credit, esg, social) ==
    IF IsNum(credit.score) /\ IsNum(esg.total) /\ IsNum(social.sentiment_score)
    THEN Num((credit.score.n * CreditWeight
                + esg.total.n * EsgWeight
                + social.sentiment_score.n * SentimentWeight) \div 10)
    ELSE NaN

\* `final_score > bound`: the bands open on the lower bound
Above(final, tenths) == IsNum(final) /\ final.n > tenths * Tenth

\* `final_score >= bound`; every comparison with NaN is false
AtLeast(final, tenths) == IsNum(final) /\ final.n >= tenths * Tenth

\* the if / elif / else ladder and its decision.update calls
SelectTier(decision, final) ==
    IF AtLeast(final, Tier1Min)
    THEN [decision EXCEPT !.status = "approved",
                          !.loan_amount = Tier1Amount,
                          !.interest_rate = Tier1Rate,
                          !.term_months = Tier1Term]
    ELSE IF AtLeast(final, Tier2Min)
    THEN [decision EXCEPT !.status = "approved",
                          !.loan_amount = Tier2Amount,
                          !.interest_rate = Tier2Rate,
                          !.term_months = Tier2Term,
                          !.requirements = <<"Monthly business review">>]
    ELSE IF AtLeast(final, Tier3Min)
    THEN [decision EXCEPT !.status = "approved",
                          !.loan_amount = Tier3Amount,
                          !.interest_rate = Tier3Rate,
                          !.term_months = Tier3Term,
                          !.requirements =
                              <<"Collateral", "Monthly business review">>]
    ELSE [decision EXCEPT !.status = "rejected",
                          !.reason = "Low credit score",
                          !.keys = @ \cup {"reason"}]

\* the social risk factors merged in after the ESG recommendations
MergeAllRecommendations(decision, credit, esg, social) ==
    [decision EXCEPT !.recommendations =
        @ \o esg.recommendations.items \o social.risk_factors]

\* decision['recommendations'].extend(esg_score['recommendations'])
MergeRecommendations(decision, credit, esg, social) ==
    [decision EXCEPT !.recommendations = @ \o esg.recommendations.items]

\* the except branch starting over from the initial dict
DecisionExceptReset(decision, exc) ==
    [PendingDecision EXCEPT !.status = "error", !.error = exc,
                            !.keys = @ \cup {"error"}]

\* the except branch: status and error are set, the rest stays as it is
DecisionExcept(decision, exc) ==
    [decision EXCEPT !.status = "error", !.error = exc,
                     !.keys = @ \cup {"error"}]

\* exception raised by reading a float slot, "none" when it reads fine
SlotError(v) ==
    CASE v.t = "missing" -> "KeyError"
      [] v.t = "none" -> "TypeError"
      [] OTHER -> "none"

make_loan_decision(credit, esg, social) ==
    IF ~IsFloat(credit.score)
    THEN DecisionExcept(PendingDecision, SlotError(credit.score))
    ELSE IF ~IsFloat(esg.total)
    THEN DecisionExcept(PendingDecision, SlotError(esg.total))
    ELSE IF ~IsFloat(social.sentiment_score)
    THEN DecisionExcept(PendingDecision, SlotError(social.sentiment_score))
    ELSE LET tiered ==
                 SelectTier(PendingDecision, final_score(credit, esg, social))
         IN IF esg.recommendations.t = "missing"
            THEN DecisionExcept(tiered, "KeyError")
            ELSE IF esg.recommendations.t = "none"
            THEN DecisionExcept(tiered, "TypeError")
            ELSE MergeRecommendations(tiered, credit, esg, social)

----------------------------------------------------------------------------
(* process_loan_application *)

AbsentSection == [t |-> "absent", keys |-> {}, posts |-> MissingList]

\* an application_data value: a mapping whose 'kyc_documents' and
\* 'social_data' sections are present or absent, or a non-mapping (None)
ApplicationValues ==
    {[t |-> "mapping", kyc_documents |-> d, social_data |-> sd] :
        d \in DocumentValues \cup {AbsentSection},
        sd \in SocialDataValues \cup {AbsentSection}}
    \cup {[t |-> "none", kyc_documents |-> AbsentSection,
           social_data |-> AbsentSection]}

\* application_data.get('kyc_documents', {})
GetDocuments(app) ==
    IF app.kyc_documents.t = "absent"
    THEN [t |-> "mapping", keys |-> {}]
    ELSE app.kyc_documents

\* application_data.get('social_data', {})
GetSocialData(app) ==
    IF app.social_data.t = "absent"
    THEN [t |-> "mapping", posts |-> MissingList]
    ELSE app.social_data

\* the dict returned when the KYC gate closes
KycRejection(kyc) ==
    [NoResult EXCEPT !.keys = {"status", "reason", "details"},
                     !.status = "rejected",
                     !.reason = "KYC verification failed",
                     !.details = kyc.errors]

\* `if kyc_status['verified']`: the gate test inverted
GateInverted(kyc) == kyc.verified

\* `if not kyc_status['verified']`
GateClosed(kyc) == ~kyc.verified

\* no outer try: the exception leaves process_loan_application
ProcessReraise(exc) == [escaped |-> TRUE, result |-> NoResult]

\* the outer except branch: the exception becomes an error record
ProcessExcept(exc) ==
    [escaped |-> FALSE,
     result |-> [NoResult EXCEPT !.keys = {"status", "message"},
                                 !.status = "error",
                                 !.message = "Error processing application"]]

----------------------------------------------------------------------------
(* State machine *)

NoKyc == [verified |-> FALSE, errors |-> <<>>, details |-> {}]
NoCredit == [score |-> Missing, components |-> <<>>, error |-> "none"]
NoEsg ==
    [environmental |-> 0, social |-> 0, governance |-> 0, total |-> Missing,
     recommendations |-> MissingList, error |-> "none"]
NoSocial == [SocialDefault EXCEPT !.sentiment_score = Missing]
NoDocuments == [t |-> "absent", keys |-> {}]
NoSocialData == [t |-> "absent", posts |-> MissingList]
NoApplication ==
    [t |-> "absent", kyc_documents |-> AbsentSection,
     social_data |-> AbsentSection]

Init ==
    /\ pc = "idle"
    /\ entry = "none"
    /\ application = NoApplication
    /\ kyc_input = NoDocuments
    /\ social_input = NoSocialData
    /\ kyc_status = NoKyc
    /\ credit_score = NoCredit
    /\ esg_score = NoEsg
    /\ social_score = NoSocial
    /\ result = NoResult
    /\ performed = {}
    /\ escaped = FALSE

\* the caller invokes process_loan_application(app); line 23 reads the
\* 'kyc_documents' section, which raises on a non-mapping
Submit(app) ==
    /\ pc = "idle"
    /\ entry' = "process_loan_application"
    /\ application' = app
    /\ performed' = {"process_loan_application"}
    /\ IF app.t # "mapping"
       THEN /\ pc' = "done"
            /\ result' = ProcessExcept("AttributeError").result
            /\ escaped' = ProcessExcept("AttributeError").escaped
            /\ kyc_input' = kyc_input
       ELSE /\ pc' = "kyc"
            /\ kyc_input' = GetDocuments(app)
            /\ UNCHANGED <<result, escaped>>
    /\ UNCHANGED <<social_input, kyc_status, credit_score, esg_score,
                   social_score>>

\* step 1: verify_kyc and the gate
KycStage(chk) ==
    /\ pc = "kyc"
    /\ kyc_status' = verify_kyc(kyc_input, chk)
    /\ performed' = performed \cup {"verify_kyc"}
    /\ IF GateClosed(kyc_status')
       THEN /\ pc' = "done"
            /\ result' = KycRejection(kyc_status')
       ELSE /\ pc' = "credit"
            /\ UNCHANGED result
    /\ UNCHANGED <<entry, application, kyc_input, social_input, credit_score,
                   esg_score, social_score, escaped>>

\* step 2: calculate_credit_score
CreditStage(h) ==
    /\ pc = "credit"
    /\ credit_score' = calculate_credit_score(application, h)
    /\ performed' = performed \cup {"calculate_credit_score"}
    /\ pc' = "esg"
    /\ UNCHANGED <<entry, application, kyc_input, social_input, kyc_status,
                   esg_score, social_score, result, escaped>>

\* step 3: calculate_esg_score
EsgStage(h) ==
    /\ pc = "esg"
    /\ esg_score' = calculate_esg_score(application, h)
    /\ performed' = performed \cup {"calculate_esg_score"}
    /\ pc' = "social"
    /\ UNCHANGED <<entry, application, kyc_input, social_input, kyc_status,
                   credit_score, social_score, result, escaped>>

\* step 4: analyze_social_media
SocialStage ==
    /\ pc = "social"
    /\ social_input' = GetSocialData(application)
    /\ social_score' = analyze_social_media(social_input')
    /\ performed' = performed \cup {"analyze_social_media"}
    /\ pc' = "decide"
    /\ UNCHANGED <<entry, application, kyc_input, kyc_status, credit_score,
                   esg_score, result, escaped>>

\* step 5: make_loan_decision and return
DecideStage ==
    /\ pc = "decide"
    /\ result' = make_loan_decision(credit_score, esg_score, social_score)
    /\ performed' = performed \cup {"make_loan_decision"}
    /\ pc' = "done"
    /\ UNCHANGED <<entry, application, kyc_input, social_input, kyc_status,
                   credit_score, esg_score, social_score, escaped>>

----------------------------------------------------------------------------
(* Direct calls of the public methods *)

\* credit_score arguments a caller may pass to make_loan_decision
CreditArgs ==
    {[score |-> v, components |-> c, error |-> "none"] :
        v \in {Num(0), Num(6 * Tenth), Num(Unit), Missing, NoneVal},
        c \in {<<>>, <<Unit, Unit, Unit>>}}

\* esg_score arguments a caller may pass to make_loan_decision
EsgArgs ==
    {[environmental |-> 0, social |-> 0, governance |-> 0, total |-> v,
      recommendations |-> r, error |-> "none"] :
        v \in {Num(0), Num(5 * Tenth), Num(Unit), Missing},
        r \in {List(<<>>),
               List(<<"Enhance social responsibility">>),
               List(<<"Improve environmental practices",
                      "Strengthen governance structures">>),
               MissingList, NoList}}

\* social_score arguments a caller may pass to make_loan_decision
SocialArgs ==
    {[sentiment_score |-> v, business_activity |-> a, risk_factors |-> rf,
      opportunities |-> <<>>, error |-> "none"] :
        v \in {Num(0 - Unit), Num(0), Num(5 * Tenth), Num(Unit), NaN, Missing},
        a \in {0, Unit},
        rf \in {<<>>, <<"Low business activity">>}}

CallVerifyKyc(docs, chk) ==
    /\ pc = "idle"
    /\ entry' = "verify_kyc"
    /\ kyc_input' = docs
    /\ kyc_status' = verify_kyc(docs, chk)
    /\ performed' = {"verify_kyc"}
    /\ pc' = "done"
    /\ UNCHANGED <<application, social_input, credit_score, esg_score,
                   social_score, result, escaped>>

CallCalculateCreditScore(h) ==
    /\ pc = "idle"
    /\ entry' = "calculate_credit_score"
    /\ credit_score' = calculate_credit_score(application, h)
    /\ performed' = {"calculate_credit_score"}
    /\ pc' = "done"
    /\ UNCHANGED <<application, kyc_input, social_input, kyc_status,
                   esg_score, social_score, result, escaped>>

CallCalculateEsgScore(h) ==
    /\ pc = "idle"
    /\ entry' = "calculate_esg_score"
    /\ esg_score' = calculate_esg_score(application, h)
    /\ performed' = {"calculate_esg_score"}
    /\ pc' = "done"
    /\ UNCHANGED <<application, kyc_input, social_input, kyc_status,
                   credit_score, social_score, result, escaped>>

CallAnalyzeSocialMedia(sd) ==
    /\ pc = "idle"
    /\ entry' = "analyze_social_media"
    /\ social_input' = sd
    /\ social_score' = analyze_social_media(sd)
    /\ performed' = {"analyze_social_media"}
    /\ pc' = "done"
    /\ UNCHANGED <<application, kyc_input, kyc_status, credit_score,
                   esg_score, result, escaped>>

CallMakeLoanDecision(credit, esg, social) ==
    /\ pc = "idle"
    /\ entry' = "make_loan_decision"
    /\ credit_score' = credit
    /\ esg_score' = esg
    /\ social_score' = social
    /\ result' = make_loan_decision(credit, esg, social)
    /\ performed' = {"make_loan_decision"}
    /\ pc' = "done"
    /\ UNCHANGED <<application, kyc_input, social_input, kyc_status, escaped>>

\* the call has returned; the object holds no state between calls
Return ==
    /\ pc = "done"
    /\ pc' = "idle"
    /\ entry' = "none"
    /\ application' = NoApplication
    /\ kyc_input' = NoDocuments
    /\ social_input' = NoSocialData
    /\ kyc_status' = NoKyc
    /\ credit_score' = NoCredit
    /\ esg_score' = NoEsg
    /\ social_score' = NoSocial
    /\ result' = NoResult
    /\ performed' = {}
    /\ escaped' = FALSE

Next ==
    \/ \E app \in ApplicationValues : Submit(app)
    \/ \E chk \in [DocTypes -> CheckOutcomes] : KycStage(chk)
    \/ \E h \in CreditRuns : CreditStage(h)
    \/ \E h \in EsgRuns : EsgStage(h)
    \/ SocialStage
    \/ DecideStage
    \/ \E docs \in DocumentValues, chk \in [DocTypes -> CheckOutcomes] :
           CallVerifyKyc(docs, chk)
    \/ \E sd \in SocialDataValues : CallAnalyzeSocialMedia(sd)
    \/ \E h \in CreditRuns : CallCalculateCreditScore(h)
    \/ \E h \in EsgRuns : CallCalculateEsgScore(h)
    \/ \E credit \in CreditArgs, esg \in EsgArgs, social \in SocialArgs :
           CallMakeLoanDecision(credit, esg, social)
    \/ Return

Spec == Init /\ [][Next]_vars

----------------------------------------------------------------------------
(* Properties *)

Called(method) == method \in performed

Scorers ==
    {"calculate_credit_score", "calculate_esg_score", "analyze_social_media",
     "make_loan_decision"}

AllDocuments == {"id_proof", "address_proof", "income_proof"}

\* the 'kyc_documents' section is absent or lacks a required document type
LacksRequired(app) ==
    /\ app.t = "mapping"
    /\ \/ app.kyc_documents.t = "absent"
       \/ /\ app.kyc_documents.t = "mapping"
          /\ AllDocuments \ app.kyc_documents.keys # {}

NoOffer(decision) ==
    /\ decision.loan_amount = 0
    /\ decision.interest_rate = 0
    /\ decision.term_months = 0
    /\ decision.requirements = <<>>

\* C1: an application whose kyc_documents section is absent or lacks one of
\* the three required document types never reaches a scorer, and
\* process_loan_application returns exactly {status: rejected, reason: KYC
\* verification failed, details: the verifier's error list}.
C1_KycGate ==
    (entry = "process_loan_application" /\ LacksRequired(application)) =>
        /\ performed \cap Scorers = {}
        /\ pc \in {"kyc", "done"}
        /\ pc = "done" =>
            /\ ~escaped
            /\ result.status = "rejected"
            /\ result.reason = "KYC verification failed"
            /\ result.details = kyc_status.errors
            /\ result.details # <<>>
            /\ result.keys = {"status", "reason", "details"}

C1_Witness ==
    /\ entry = "process_loan_application"
    /\ pc = "done"
    /\ application.kyc_documents.t = "mapping"
    /\ application.kyc_documents.keys = {"id_proof", "address_proof"}
    /\ result.status = "rejected"
    /\ "Missing income_proof" \in {result.details[i] : i \in DOMAIN result.details}

\* the three slots final_score reads hold numbers
ScoreSlotsAreNumbers ==
    /\ IsNum(credit_score.score)
    /\ IsNum(esg_score.total)
    /\ IsNum(social_score.sentiment_score)

\* make_loan_decision returned without taking its except branch
DecidedWithoutError ==
    /\ Called("make_loan_decision")
    /\ pc = "done"
    /\ result.error = "none"

\* C2: a decision returned without error follows the threshold ladder, the
\* first matching band from the top deciding: final_score >= 0.7 gives
\* (approved, 500000, 12, 24, no requirements), [0.5, 0.7) gives (approved,
\* 300000, 15, 18, Monthly business review), [0.3, 0.5) gives (approved,
\* 100000, 18, 12, Collateral + Monthly business review), below 0.3 gives
\* rejected with reason Low credit score; 0.7, 0.5 and 0.3 themselves land
\* in the higher band.
C2_ThresholdLadder ==
    (DecidedWithoutError /\ ScoreSlotsAreNumbers) =>
        LET f == final_score(credit_score, esg_score, social_score).n IN
        /\ f >= 2100 =>
            /\ result.status = "approved"
            /\ result.loan_amount = 500000
            /\ result.interest_rate = 12
            /\ result.term_months = 24
            /\ result.requirements = <<>>
        /\ (1500 <= f /\ f < 2100) =>
            /\ result.status = "approved"
            /\ result.loan_amount = 300000
            /\ result.interest_rate = 15
            /\ result.term_months = 18
            /\ result.requirements = <<"Monthly business review">>
        /\ (900 <= f /\ f < 1500) =>
            /\ result.status = "approved"
            /\ result.loan_amount = 100000
            /\ result.interest_rate = 18
            /\ result.term_months = 12
            /\ result.requirements = <<"Collateral", "Monthly business review">>
        /\ f < 900 =>
            /\ result.status = "rejected"
            /\ result.reason = "Low credit score"
            /\ "reason" \in result.keys
            /\ NoOffer(result)

\* a final_score of exactly 0.5 is decided as the middle band
C2_Witness ==
    /\ DecidedWithoutError
    /\ ScoreSlotsAreNumbers
    /\ final_score(credit_score, esg_score, social_score) = Num(1500)
    /\ result.loan_amount = 300000

\* C3: when documents holds all three required types, every type-specific
\* check succeeds, a detail is recorded per type, errors is empty and
\* verified is true, and process_loan_application goes on to scoring and
\* make_loan_decision.
C3_AllDocumentsVerify ==
    /\ (Called("verify_kyc") /\ kyc_input.t = "mapping"
            /\ kyc_input.keys = AllDocuments) =>
        /\ kyc_status.verified
        /\ kyc_status.errors = <<>>
        /\ kyc_status.details = {"id", "address", "income"}
    /\ (entry = "process_loan_application" /\ pc = "done"
            /\ kyc_input.t = "mapping" /\ kyc_input.keys = AllDocuments) =>
        Called("make_loan_decision")

\* C4: analyze_social_media on a mapping without 'posts' or with an empty
\* 'posts' list returns sentiment_score 0, business_activity 0, no risk
\* factors, no opportunities and no error field.
C4_EmptyPostsNoOp ==
    (Called("analyze_social_media") /\ social_input.t = "mapping"
        /\ \/ social_input.posts.t = "missing"
           \/ social_input.posts = List(<<>>)) =>
        /\ social_score.sentiment_score = Num(0)
        /\ social_score.business_activity = 0
        /\ social_score.risk_factors = <<>>
        /\ social_score.opportunities = <<>>
        /\ social_score.error = "none"

\* C5: process_loan_application always returns a record whose status is
\* approved, rejected or error; no exception leaves it, the status is never
\* pending, and a failure of its own body becomes {status: error, message}.
C5_NoExceptionEscapes ==
    (entry = "process_loan_application" /\ pc = "done") =>
        /\ ~escaped
        /\ "status" \in result.keys
        /\ result.status \in {"approved", "rejected", "error"}
        /\ application.t # "mapping" =>
            /\ result.status = "error"
            /\ result.keys = {"status", "message"}
            /\ result.message # "none"

C5_Witness ==
    /\ entry = "process_loan_application"
    /\ pc = "done"
    /\ application.t = "none"
    /\ result.status = "error"
    /\ ~escaped

\* C6: a scorer that fails internally returns its zeroed structure together
\* with an error field (credit score 0; ESG sub-scores and total 0 with no
\* recommendations; sentiment_score 0, business_activity 0 and no flags),
\* and process_loan_application still goes on to make_loan_decision.
C6_FailureIsZeroed ==
    /\ (Called("analyze_social_media") /\ social_score.error # "none") =>
        /\ social_score.sentiment_score = Num(0)
        /\ social_score.business_activity = 0
        /\ social_score.risk_factors = <<>>
        /\ social_score.opportunities = <<>>
    /\ (Called("calculate_credit_score") /\ credit_score.error # "none") =>
        credit_score.score = Num(0)
    /\ (Called("calculate_esg_score") /\ esg_score.error # "none") =>
        /\ esg_score.environmental = 0
        /\ esg_score.social = 0
        /\ esg_score.governance = 0
        /\ esg_score.total = Num(0)
        /\ esg_score.recommendations = List(<<>>)
    /\ (entry = "process_loan_application" /\ pc = "done"
            /\ kyc_status.verified) =>
        Called("make_loan_decision")

\* the band a final score falls in, as (loan_amount, interest_rate,
\* term_months, requirements); zero below 0.3
LadderOffer(f) ==
    IF f >= 2100 THEN <<500000, 12, 24, <<>>>>
    ELSE IF f >= 1500 THEN <<300000, 15, 18, <<"Monthly business review">>>>
    ELSE IF f >= 900
    THEN <<100000, 18, 12, <<"Collateral", "Monthly business review">>>>
    ELSE <<0, 0, 0, <<>>>>

Offer(decision) ==
    <<decision.loan_amount, decision.interest_rate, decision.term_months,
      decision.requirements>>

\* C7: the decision is the ladder applied to 0.5 * credit.score + 0.3 *
\* esg.total + 0.2 * social.sentiment_score, and it reads the credit and
\* social arguments through score and sentiment_score alone: any other call
\* with the same credit.score, the same esg_score and the same
\* sentiment_score returns the same decision, whatever its components,
\* business_activity and risk_factors.
C7_SentimentOnly ==
    (Called("make_loan_decision") /\ pc = "done") =>
        /\ (ScoreSlotsAreNumbers /\ esg_score.recommendations.t = "list") =>
            Offer(result) =
                LadderOffer((5 * credit_score.score.n
                             + 3 * esg_score.total.n
                             + 2 * social_score.sentiment_score.n) \div 10)
        /\ \A credit \in CreditArgs, social \in SocialArgs :
            (/\ credit.score = credit_score.score
             /\ social.sentiment_score = social_score.sentiment_score) =>
                /\ make_loan_decision(credit, esg_score, social) = result
                /\ make_loan_decision(
                       credit,
                       [esg_score EXCEPT !.environmental = Unit - @,
                                         !.social = Unit - @,
                                         !.governance = Unit - @],
                       social) = result

\* an approved middle-band decision of a call whose social score has full
\* business activity and a risk factor
C7_Witness ==
    /\ entry = "make_loan_decision"
    /\ pc = "done"
    /\ social_score.business_activity = Unit
    /\ social_score.risk_factors # <<>>
    /\ credit_score.components # <<>>
    /\ social_score.sentiment_score = Num(0)
    /\ result.status = "approved"
    /\ result.loan_amount = 300000

\* the advisory strings for the sub-scores below 0.6, in the fixed order
ExpectedAdvice(esg) ==
    LET rules ==
            <<[v |-> esg.environmental,
               s |-> "Improve environmental practices"],
              [v |-> esg.social, s |-> "Enhance social responsibility"],
              [v |-> esg.governance,
               s |-> "Strengthen governance structures"]>>
        IsLow(rule) == rule.v < 1800
        low == SelectSeq(rules, IsLow)
    IN [i \in 1..Len(low) |-> low[i].s]

\* C8: when calculate_esg_score completes, its recommendations are the
\* advisory strings of exactly the sub-scores below 0.6, in the order
\* environmental, social, governance; and every decision returned without
\* error, approved or rejected, carries exactly the ESG recommendations list
\* in the same order.
C8_EsgRecommendationsOnly ==
    /\ (Called("calculate_esg_score") /\ esg_score.error = "none") =>
        esg_score.recommendations = List(ExpectedAdvice(esg_score))
    /\ DecidedWithoutError =>
        result.recommendations = esg_score.recommendations.items

\* a score-rejected decision of the pipeline that carries two ESG
\* recommendations while the social score holds a risk factor
C8_Witness ==
    /\ entry = "process_loan_application"
    /\ pc = "done"
    /\ result.status = "rejected"
    /\ result.reason = "Low credit score"
    /\ esg_score.environmental = 6 * Tenth
    /\ result.recommendations =
           <<"Enhance social responsibility",
             "Strengthen governance structures">>
    /\ social_score.risk_factors # <<>>

\* C9: in every result of verify_kyc, verified is true exactly when errors
\* is empty, on the normal path, the missing-document path and the path
\* where a check raises; the exception never leaves verify_kyc.
C9_VerifiedIffNoErrors ==
    Called("verify_kyc") =>
        /\ kyc_status.verified <=> (kyc_status.errors = <<>>)
        /\ ~escaped

\* a check raised after a missing document was recorded
C9_Witness ==
    /\ Called("verify_kyc")
    /\ kyc_input.t = "mapping"
    /\ kyc_input.keys = {"address_proof", "income_proof"}
    /\ kyc_status.errors = <<"Missing id_proof", "Verification error">>
    /\ ~kyc_status.verified

\* C10 as claimed: every decision whose status is not approved carries no
\* loan offer.
C10_NoOfferUnlessApproved ==
    (Called("make_loan_decision") /\ pc = "done"
        /\ result.status # "approved") => NoOffer(result)

\* C10 as amended: a rejected decision carries no loan offer, and so does an
\* error decision whose failure happened while final_score was computed; an
\* error decision whose failure happened while the ESG recommendations were
\* merged keeps the offer of the band its final_score selected.
C10_OfferOfFailedDecision ==
    (Called("make_loan_decision") /\ pc = "done") =>
        /\ result.status = "rejected" => NoOffer(result)
        /\ (result.status = "error"
                /\ ~(IsFloat(credit_score.score) /\ IsFloat(esg_score.total)
                        /\ IsFloat(social_score.sentiment_score))) =>
            NoOffer(result)
        /\ (result.status = "error"
                /\ NaN \in {credit_score.score, esg_score.total,
                            social_score.sentiment_score}) =>
            NoOffer(result)
        /\ (result.status = "error" /\ ScoreSlotsAreNumbers) =>
            /\ esg_score.recommendations.t # "list"
            /\ Offer(result) =
                LadderOffer((5 * credit_score.score.n
                             + 3 * esg_score.total.n
                             + 2 * social_score.sentiment_score.n) \div 10)

\* an error decision that still carries the top band's offer
C10_Witness ==
    /\ entry = "make_loan_decision"
    /\ pc = "done"
    /\ result.status = "error"
    /\ result.loan_amount = 500000
    /\ result.term_months = 24

====
